---- MODULE Spec2Model ----
(***************************************************************************)
(* Model of the commit-explorer favorites store                            *)
(* (src/src/stores/useFavorites.ts): the Pinia store holding the set of     *)
(* favorite commit SHAs and the map SHA -> FavoriteCommit, its loading      *)
(* from the two localStorage slots (V2 "rich", V1 "legacy") and its         *)
(* write-through persistence.                                               *)
(*                                                                         *)
(* A JavaScript Set / Map iterates in insertion order, and that order is    *)
(* what Array.from and JSON.stringify write out, so both are modelled as    *)
(* duplicate-free sequences.  A handler runs to completion on the single    *)
(* JavaScript thread, so each handler is one action.                        *)
(***************************************************************************)
EXTENDS Integers, Sequences, FiniteSets, TLC

\* The commit SHAs the model draws from.
Shas == {"a1", "b2"}
\* Number of distinct commit dates (timestamps) a FavoriteCommit may carry.
NumDates == 2

Dates == 1..NumDates

\* A FavoriteCommit (src/src/types/github.ts): identified by sha; date stands
\* for the remaining display fields, so two records of one sha differ in it.
FavoriteCommit == [sha : Shas, date : Dates]

\* `undefined`: the absent commitData argument / the result of Map.get on a
\* missing key.
NoData == [sha |-> "", date |-> 0]

Range(s) == {s[i] : i \in DOMAIN s}

\* All duplicate-free sequences over S (what Array.from(aSet) can produce).
RECURSIVE DistinctSeqs(_)
DistinctSeqs(S) ==
    IF S = {} THEN {<<>>}
    ELSE {<<>>} \cup UNION {{<<x>> \o t : t \in DistinctSeqs(S \ {x})} : x \in S}

(***************************************************************************)
(* Set<string> and Map<string, FavoriteCommit> in insertion order.         *)
(***************************************************************************)
SetHas(s, x) == x \in Range(s)
SetAdd(s, x) == IF SetHas(s, x) THEN s ELSE Append(s, x)
SetDelete(s, x) == SelectSeq(s, LAMBDA y : y # x)

MapKeys(m) == {m[i].key : i \in DOMAIN m}
MapHas(m, k) == k \in MapKeys(m)
MapGet(m, k) ==
    IF MapHas(m, k) THEN (CHOOSE e \in Range(m) : e.key = k).val ELSE NoData
\* Map.set keeps the position of an existing key and replaces its value.
MapSet(m, k, v) ==
    IF MapHas(m, k)
    THEN [i \in DOMAIN m |-> IF m[i].key = k THEN [key |-> k, val |-> v] ELSE m[i]]
    ELSE Append(m, [key |-> k, val |-> v])
MapDelete(m, k) == SelectSeq(m, LAMBDA e : e.key # k)
MapValues(m) == [i \in DOMAIN m |-> m[i].val]

\* new Set(array): add the elements in order.
RECURSIVE SetFromArray(_)
SetFromArray(a) ==
    IF a = <<>> THEN <<>>
    ELSE SetAdd(SetFromArray(SubSeq(a, 1, Len(a) - 1)), a[Len(a)])

\* new Map(commits.map(commit => [commit.sha, commit])): set the entries in order.
RECURSIVE MapFromCommits(_)
MapFromCommits(a) ==
    IF a = <<>> THEN <<>>
    ELSE MapSet(MapFromCommits(SubSeq(a, 1, Len(a) - 1)), a[Len(a)].sha, a[Len(a)])

\* commits.map(commit => commit.sha)
ShasOf(a) == [i \in DOMAIN a |-> a[i].sha]

(***************************************************************************)
(* localStorage slots.  A slot holds a string or nothing; the strings are   *)
(* classed by what getItem / JSON.parse make of them:                       *)
(*   "null"      the key is absent (getItem returns null)                   *)
(*   "empty"     the empty string (falsy, like null)                        *)
(*   "malformed" a string JSON.parse throws on                              *)
(*   "object"    valid JSON that is no array, e.g. {} (commits.map is not   *)
(*               a function; new Set({}) throws: not iterable)              *)
(*   "array"     a JSON array, with its items                               *)
(***************************************************************************)
SlotNull == [kind |-> "null", items |-> <<>>]
SlotEmpty == [kind |-> "empty", items |-> <<>>]
SlotMalformed == [kind |-> "malformed", items |-> <<>>]
SlotObject == [kind |-> "object", items |-> <<>>]

\* JSON.stringify of an array.
JSONstringify(a) == [kind |-> "array", items |-> a]
\* JSON.parse: whether it throws, and the parsed array otherwise.
JSONparseThrows(slot) == slot.kind = "malformed"
JSONparse(slot) == slot.items
\* A parsed value that is no array throws a TypeError when mapped / iterated.
IsArray(slot) == slot.kind = "array"
\* `if (stored)`: null and "" are falsy.
Truthy(slot) == slot.kind \notin {"null", "empty"}


(***************************************************************************)
(* State.                                                                  *)
(***************************************************************************)
VARIABLES
    favorites,        \* state.favorites: Set<string>, in insertion order
    favoriteCommits,  \* state.favoriteCommits: Map<string, FavoriteCommit>
    initialized,      \* state.initialized
    storeV2,          \* localStorage['github-commit-favorites-v2'] (rich slot)
    storeV1,          \* localStorage['github-commit-favorites'] (legacy slot)
    browser,          \* what isBrowserEnvironment() returns in this process
    lastOp,           \* history: the last handler run, its arguments and outcome
    synced,           \* history: the last mutation's persist wrote both slots
    legacyIds,        \* history (kept under SpecLegacy only): the ids this
                      \* process loaded from the legacy slot
    refSet,           \* history: the reference set model of the call sequence
    listed,           \* history: what the getAllFavoriteCommits getter returned
    repoStore,        \* the repo store's state (useRepoStore)
    view,             \* RepoView: whether it is mounted, mobileView, isDesktop
    panels,           \* commits and loading of the two CommitHistory instances
    inflight,         \* API requests awaiting their response
    rlast,            \* history: the last RepoView/repo store handler run
    apiCall,          \* history: the last githubApi call, what it sent and returned
    composable        \* the module-level refs of the useFavorites composable

storeVars == <<favorites, favoriteCommits, initialized, storeV2, storeV1, browser>>
\* What the favorites store's own actions leave alone.
browseVars == <<repoStore, view, panels, inflight, rlast>>
appVars == <<listed, browseVars, apiCall, composable>>
vars == <<favorites, favoriteCommits, initialized, storeV2, storeV1, browser,
          lastOp, synced, legacyIds, refSet, appVars>>

\* The store and its environment as one value, the `this` of the actions.
World ==
    [favorites |-> favorites, favoriteCommits |-> favoriteCommits,
     initialized |-> initialized, storeV2 |-> storeV2, storeV1 |-> storeV1,
     browser |-> browser, threw |-> FALSE]

\* The favorites index of a world: the id set and the id -> record mapping.
IndexOf(w) == [favorites |-> w.favorites, favoriteCommits |-> w.favoriteCommits]
EmptyIndex == [favorites |-> <<>>, favoriteCommits |-> <<>>]

\* state(): the store as it is created, over the same environment.
freshState(w) ==
    [w EXCEPT !.favorites = <<>>, !.favoriteCommits = <<>>, !.initialized = FALSE]

\* typeof window !== 'undefined' && typeof localStorage !== 'undefined'
isBrowserEnvironment(w) == w.browser

(***************************************************************************)
(* Getters.                                                                *)
(***************************************************************************)
isFavorite(w, sha) == SetHas(w.favorites, sha)
getAllFavorites(w) == w.favorites
getFavoriteCommit(w, sha) == MapGet(w.favoriteCommits, sha)

\* new Date(b.date).getTime() - new Date(a.date).getTime()
\* Variant of sortByDateDescending: the operands are swapped.
sortByDateAscending(a, b) == a.date - b.date

sortByDateDescending(a, b) == b.date - a.date

\* Array.prototype.sort with a comparator: stable; an element moves before
\* another only when the comparator is positive for (earlier, later).
RECURSIVE InsertSorted(_, _)
InsertSorted(s, x) ==
    IF s = <<>> THEN <<x>>
    ELSE IF sortByDateDescending(s[Len(s)], x) > 0
         THEN Append(InsertSorted(SubSeq(s, 1, Len(s) - 1), x), s[Len(s)])
         ELSE Append(s, x)
RECURSIVE SortCommits(_)
SortCommits(a) ==
    IF a = <<>> THEN <<>>
    ELSE InsertSorted(SortCommits(SubSeq(a, 1, Len(a) - 1)), a[Len(a)])

getAllFavoriteCommits(w) == SortCommits(MapValues(w.favoriteCommits))

(***************************************************************************)
(* initialize().  rd says which localStorage.getItem call, if reached,      *)
(* throws (a storage-access failure): "ok", "failV2" or "failV1".           *)
(***************************************************************************)
ReadOutcomes == {"ok", "failV2", "failV1"}

\* Variant of initializeTry: a V2 string that does not parse to an array is
\* skipped like an absent one, and the V1 slot is read.
initializeTryFallsBack(w, rd) ==
    IF rd = "failV2" THEN [w EXCEPT !.threw = TRUE]
    ELSE IF Truthy(w.storeV2) /\ ~JSONparseThrows(w.storeV2) /\ IsArray(w.storeV2)
    THEN [w EXCEPT !.favoriteCommits = MapFromCommits(JSONparse(w.storeV2)),
                   !.favorites = SetFromArray(ShasOf(JSONparse(w.storeV2))),
                   !.initialized = TRUE]
    ELSE IF rd = "failV1" THEN [w EXCEPT !.threw = TRUE]
    ELSE IF Truthy(w.storeV1)
    THEN IF JSONparseThrows(w.storeV1) \/ ~IsArray(w.storeV1)
         THEN [w EXCEPT !.threw = TRUE]
         ELSE [w EXCEPT !.favorites = SetFromArray(JSONparse(w.storeV1))]
    ELSE w

\* Variant of initializeTry: after a V2 array is loaded the V1 slot is read
\* too and its ids are added.
initializeTryMergesLegacy(w, rd) ==
    IF rd = "failV2" THEN [w EXCEPT !.threw = TRUE]
    ELSE IF Truthy(w.storeV2)
    THEN IF JSONparseThrows(w.storeV2) \/ ~IsArray(w.storeV2)
         THEN [w EXCEPT !.threw = TRUE]
         ELSE [w EXCEPT !.favoriteCommits = MapFromCommits(JSONparse(w.storeV2)),
                        !.favorites =
                            IF IsArray(w.storeV1)
                            THEN SetFromArray(ShasOf(JSONparse(w.storeV2))
                                                  \o JSONparse(w.storeV1))
                            ELSE SetFromArray(ShasOf(JSONparse(w.storeV2))),
                        !.initialized = TRUE]
    ELSE IF rd = "failV1" THEN [w EXCEPT !.threw = TRUE]
    ELSE IF Truthy(w.storeV1)
    THEN IF JSONparseThrows(w.storeV1) \/ ~IsArray(w.storeV1)
         THEN [w EXCEPT !.threw = TRUE]
         ELSE [w EXCEPT !.favorites = SetFromArray(JSONparse(w.storeV1))]
    ELSE w

\* The try block: the state it leaves, and whether it threw.
initializeTry(w, rd) ==
    IF rd = "failV2" THEN [w EXCEPT !.threw = TRUE]
    ELSE IF Truthy(w.storeV2)
    THEN IF JSONparseThrows(w.storeV2) \/ ~IsArray(w.storeV2)
         THEN [w EXCEPT !.threw = TRUE]
         ELSE [w EXCEPT !.favoriteCommits = MapFromCommits(JSONparse(w.storeV2)),
                        !.favorites = SetFromArray(ShasOf(JSONparse(w.storeV2))),
                        !.initialized = TRUE]
    ELSE IF rd = "failV1" THEN [w EXCEPT !.threw = TRUE]
    ELSE IF Truthy(w.storeV1)
    THEN IF JSONparseThrows(w.storeV1) \/ ~IsArray(w.storeV1)
         THEN [w EXCEPT !.threw = TRUE]
         ELSE [w EXCEPT !.favorites = SetFromArray(JSONparse(w.storeV1))]
    ELSE w

\* Variant of initializeCatch: the error is logged and thrown again.
initializeCatchRethrows(w) ==
    IF w.threw
    THEN [w EXCEPT !.favorites = <<>>, !.favoriteCommits = <<>>]
    ELSE w

\* catch: log, reset to the empty state; the exception stops here.
initializeCatch(w) ==
    IF w.threw
    THEN [w EXCEPT !.favorites = <<>>, !.favoriteCommits = <<>>, !.threw = FALSE]
    ELSE w

\* Variant of initialize: no check of the initialized flag.
initializeRepeats(w, rd) ==
    IF ~isBrowserEnvironment(w)
    THEN [w EXCEPT !.initialized = TRUE]
    ELSE [initializeCatch(initializeTry(w, rd)) EXCEPT !.initialized = TRUE]

initialize(w, rd) ==
    IF w.initialized \/ ~isBrowserEnvironment(w)
    THEN [w EXCEPT !.initialized = TRUE]
    ELSE [initializeCatch(initializeTry(w, rd)) EXCEPT !.initialized = TRUE]

(***************************************************************************)
(* persistFavorites().  wr says which localStorage.setItem call throws      *)
(* (e.g. quota exceeded): "ok", "failV2" (the first) or "failV1" (the       *)
(* second, after the first has written).                                    *)
(***************************************************************************)
WriteOutcomes == {"ok", "failV2", "failV1"}

\* Variant of persistFavorites: only the V2 slot is written.
persistFavoritesV2Only(w, wr) ==
    IF ~isBrowserEnvironment(w) THEN w
    ELSE IF wr = "failV2" THEN w
    ELSE [w EXCEPT !.storeV2 = JSONstringify(MapValues(w.favoriteCommits))]

\* Variant of persistFavorites: no try/catch around the writes.
persistFavoritesUncaught(w, wr) ==
    IF ~isBrowserEnvironment(w) THEN w
    ELSE IF wr = "failV2" THEN [w EXCEPT !.threw = TRUE]
    ELSE IF wr = "failV1"
    THEN [w EXCEPT !.storeV2 = JSONstringify(MapValues(w.favoriteCommits)),
                   !.threw = TRUE]
    ELSE [w EXCEPT !.storeV2 = JSONstringify(MapValues(w.favoriteCommits)),
                   !.storeV1 = JSONstringify(w.favorites)]

\* Variant of persistFavorites: no isBrowserEnvironment check.
persistFavoritesUnguarded(w, wr) ==
    IF wr = "failV2" THEN w
    ELSE IF wr = "failV1"
    THEN [w EXCEPT !.storeV2 = JSONstringify(MapValues(w.favoriteCommits))]
    ELSE [w EXCEPT !.storeV2 = JSONstringify(MapValues(w.favoriteCommits)),
                   !.storeV1 = JSONstringify(w.favorites)]

persistFavorites(w, wr) ==
    IF ~isBrowserEnvironment(w) THEN w
    ELSE IF wr = "failV2" THEN w
    ELSE IF wr = "failV1"
    THEN [w EXCEPT !.storeV2 = JSONstringify(MapValues(w.favoriteCommits))]
    ELSE [w EXCEPT !.storeV2 = JSONstringify(MapValues(w.favoriteCommits)),
                   !.storeV1 = JSONstringify(w.favorites)]

(***************************************************************************)
(* addFavorite / removeFavorite / toggleFavorite.                          *)
(***************************************************************************)
\* Variant of addFavorite: with commitData, the sha is not added to the set.
addFavoriteRecordOnly(w, sha, commitData, wr) ==
    persistFavorites(
        IF commitData # NoData
        THEN [w EXCEPT !.favoriteCommits = MapSet(@, sha, commitData)]
        ELSE [w EXCEPT !.favorites = SetAdd(@, sha)],
        wr)

\* Variant of addFavorite: commitData is stored only for a sha that is new.
addFavoriteNewOnly(w, sha, commitData, wr) ==
    persistFavorites(
        [w EXCEPT !.favorites = SetAdd(@, sha),
                  !.favoriteCommits =
                      IF commitData # NoData /\ ~SetHas(w.favorites, sha)
                      THEN MapSet(@, sha, commitData) ELSE @],
        wr)

\* Variant of addFavorite: without commitData the record of the sha is dropped.
addFavoriteDropsRecord(w, sha, commitData, wr) ==
    persistFavorites(
        [w EXCEPT !.favorites = SetAdd(@, sha),
                  !.favoriteCommits =
                      IF commitData # NoData THEN MapSet(@, sha, commitData)
                      ELSE MapDelete(@, sha)],
        wr)

addFavorite(w, sha, commitData, wr) ==
    persistFavorites(
        [w EXCEPT !.favorites = SetAdd(@, sha),
                  !.favoriteCommits =
                      IF commitData # NoData THEN MapSet(@, sha, commitData) ELSE @],
        wr)

\* Variant of removeFavorite: the commit data is left in the map.
removeFavoriteKeepsRecord(w, sha, wr) ==
    persistFavorites([w EXCEPT !.favorites = SetDelete(@, sha)], wr)

\* Variant of removeFavorite: the whole map is cleared.
removeFavoriteClearsMap(w, sha, wr) ==
    persistFavorites(
        [w EXCEPT !.favorites = SetDelete(@, sha),
                  !.favoriteCommits = <<>>],
        wr)

removeFavorite(w, sha, wr) ==
    persistFavorites(
        [w EXCEPT !.favorites = SetDelete(@, sha),
                  !.favoriteCommits = MapDelete(@, sha)],
        wr)

\* Variant of toggleFavorite: no check for a sha that is already a favorite.
toggleFavoriteAlwaysAdds(w, sha, commitData, wr) ==
    addFavorite(w, sha, commitData, wr)

\* Variant of toggleFavorite: a favorite without commit data is given the
\* supplied data instead of being removed.
toggleFavoriteBackfills(w, sha, commitData, wr) ==
    IF SetHas(w.favorites, sha)
           /\ ~(commitData # NoData /\ ~MapHas(w.favoriteCommits, sha))
    THEN removeFavorite(w, sha, wr)
    ELSE addFavorite(w, sha, commitData, wr)

toggleFavorite(w, sha, commitData, wr) ==
    IF SetHas(w.favorites, sha)
    THEN removeFavorite(w, sha, wr)
    ELSE addFavorite(w, sha, commitData, wr)


(***************************************************************************)
(* Reference set model of the call sequence: add inserts, remove deletes,   *)
(* toggle flips.                                                            *)
(***************************************************************************)
RefAdd(S, sha) == S \cup {sha}
RefRemove(S, sha) == S \ {sha}
RefToggle(S, sha) == IF sha \in S THEN S \ {sha} ELSE S \cup {sha}

(***************************************************************************)
(* Initial state: the store as state() builds it (not yet initialized), in  *)
(* a process with or without localStorage, over storage left by earlier     *)
(* runs of this client or of the legacy client, or damaged.                 *)
(***************************************************************************)
\* Arrays a V2 writer produces: the values of a Map keyed by sha.
RichArrays ==
    {[i \in DOMAIN q |-> [sha |-> q[i], date |-> d[q[i]]]] :
        q \in DistinctSeqs(Shas), d \in [Shas -> Dates]}
\* Arrays a V1 writer produces: Array.from of a Set of shas.
LegacyArrays == DistinctSeqs(Shas)

RichSlots ==
    {SlotNull, SlotEmpty, SlotMalformed, SlotObject}
        \cup {JSONstringify(a) : a \in RichArrays}
LegacySlots ==
    {SlotNull, SlotEmpty, SlotMalformed, SlotObject}
        \cup {JSONstringify(a) : a \in LegacyArrays}

\* lastOp: op, its arguments sha and data, io (the getItem call that threw in
\* initialize), threw (an exception reached the caller), flag (initialize: its
\* body ran; isFavorite: the result) and was (the state of sha before a
\* mutation: "absent", "bare" = favorite without record, "recorded").
NoOp == [op |-> "none", sha |-> "", data |-> NoData, io |-> "ok",
         threw |-> FALSE, flag |-> FALSE, was |-> "absent"]

WasIn(w, sha) ==
    IF ~SetHas(w.favorites, sha) THEN "absent"
    ELSE IF MapHas(w.favoriteCommits, sha) THEN "recorded" ELSE "bare"

\* Whether initialize, run on w with read outcome rd, takes the legacy path:
\* no usable V2 string, and a V1 string that is read.
LoadsLegacy(w, rd) ==
    ~w.initialized /\ w.browser /\ rd = "ok" /\ ~Truthy(w.storeV2) /\ Truthy(w.storeV1)

(***************************************************************************)
(* The repo store (stores/repoStore.ts), the RepoView that drives it and    *)
(* the CommitHistory panels that fetch the commit lists.                    *)
(***************************************************************************)
Usernames == {"ann", "bob"}
RepoNames == {"A", "B"}

\* null, for each kind of value.
NoUser == ""
NoRepo == [name |-> "", owner |-> ""]
NoCommit == [sha |-> "", repo |-> "", owner |-> ""]
NoError == ""

\* What the API serves: the repositories of a user and the commits of a
\* repository; each piece of data is tagged with where it was fetched from.
RepositoriesOf(u) ==
    IF u = "ann"
    THEN <<[name |-> "A", owner |-> u], [name |-> "B", owner |-> u]>>
    ELSE <<[name |-> "B", owner |-> u]>>
CommitShas(r) == IF r = "A" THEN <<"a1", "a2">> ELSE <<"b2">>
CommitsOf(u, r) ==
    [i \in DOMAIN CommitShas(r) |-> [sha |-> CommitShas(r)[i], repo |-> r, owner |-> u]]
CommitShaSet == {"a1", "a2", "b2"}

\* The Error messages the API calls reject with.
InitErrors == {"User not found", "Failed to fetch repositories"}
CommitsError == "Failed to fetch commits"
DetailError == "Failed to fetch commit details"

\* state(): the store as created and as $reset() leaves it.
repoState ==
    [username |-> "", user |-> NoUser, repositories |-> <<>>, searchQuery |-> <<>>,
     selectedRepo |-> NoRepo, commits |-> <<>>, selectedCommit |-> NoCommit,
     loading |-> FALSE, loadingCommitDetails |-> FALSE, error |-> NoError,
     initialized |-> FALSE]

\* Variant of selectRepository: a commit list is kept when the repository
\* selected is the one already selected.
selectRepositoryKeepsList(s, repo) ==
    [s EXCEPT !.selectedRepo = repo, !.selectedCommit = NoCommit,
              !.commits = IF repo = s.selectedRepo THEN @ ELSE <<>>]

selectRepository(s, repo) ==
    [s EXCEPT !.selectedRepo = repo, !.selectedCommit = NoCommit, !.commits = <<>>]

clearSelection(s) ==
    [s EXCEPT !.selectedRepo = NoRepo, !.selectedCommit = NoCommit, !.commits = <<>>]

setCommits(s, commits) == [s EXCEPT !.commits = commits]

clearSelectedCommit(s) == [s EXCEPT !.selectedCommit = NoCommit]

\* initialize up to its await: the early return, or the loading state.
initializeStart(s, username) ==
    IF username = "" THEN [s EXCEPT !.error = "Username is required"]
    ELSE [s EXCEPT !.username = username, !.loading = TRUE, !.error = NoError]

\* initialize from its await on: try, catch and finally.  outcome is "ok"
\* or the message of the Error Promise.all rejected with.
initializeDone(s, username, shouldAutoSelectFirstRepo, outcome) ==
    LET done ==
            IF outcome = "ok"
            THEN LET t == [s EXCEPT !.user = username,
                                    !.repositories = RepositoriesOf(username)]
                 IN IF shouldAutoSelectFirstRepo /\ Len(t.repositories) > 0
                    THEN selectRepository(t, t.repositories[1])
                    ELSE clearSelection(t)
            ELSE clearSelection([s EXCEPT !.error = outcome, !.user = NoUser,
                                          !.repositories = <<>>])
    IN [done EXCEPT !.loading = FALSE, !.initialized = TRUE]

\* selectCommit up to its await; it returns at once with no repository selected.
selectCommitStart(s) ==
    IF s.selectedRepo = NoRepo THEN s
    ELSE [s EXCEPT !.loadingCommitDetails = TRUE, !.error = NoError]

\* Variant of selectCommitDone: the failure is caught and not recorded.
selectCommitDoneSwallows(s, detail, outcome) ==
    [(IF outcome = "ok" THEN [s EXCEPT !.selectedCommit = detail] ELSE s)
     EXCEPT !.loadingCommitDetails = FALSE]

\* selectCommit from its await on: detail is the response, or outcome the
\* message of the Error.
selectCommitDone(s, detail, outcome) ==
    [(IF outcome = "ok" THEN [s EXCEPT !.selectedCommit = detail]
      ELSE [s EXCEPT !.error = outcome])
     EXCEPT !.loadingCommitDetails = FALSE]

\* Text that is searched is a sequence of characters.  toLowerCase maps the
\* upper-case letters of the texts used here to their lower-case letters;
\* trim drops the white space at both ends; includes looks for the first
\* position at which the query starts.
toLowerCaseChar(c) ==
    CASE c = "W" -> "w"
      [] c = "O" -> "o"
      [] c = "Z" -> "z"
      [] OTHER -> c
toLowerCase(t) == [i \in DOMAIN t |-> toLowerCaseChar(t[i])]
isWhiteSpace(c) == c = " "

RECURSIVE trimStart(_)
trimStart(t) ==
    IF t # <<>> /\ isWhiteSpace(Head(t)) THEN trimStart(Tail(t)) ELSE t

RECURSIVE trimEnd(_)
trimEnd(t) ==
    IF t # <<>> /\ isWhiteSpace(t[Len(t)])
    THEN trimEnd(SubSeq(t, 1, Len(t) - 1)) ELSE t

trim(t) == trimEnd(trimStart(t))

RECURSIVE indexOfFrom(_, _, _)
indexOfFrom(t, q, i) ==
    IF i + Len(q) > Len(t) THEN -1
    ELSE IF SubSeq(t, i + 1, i + Len(q)) = q THEN i
    ELSE indexOfFrom(t, q, i + 1)

includes(t, q) == indexOfFrom(t, q, 0) # -1

\* A repository without a description has description null.
NoDescription == "null"

\* Variant of filteredRepos: the description is not searched.
filteredReposNameOnly(s) ==
    IF trim(s.searchQuery) = <<>> THEN s.repositories
    ELSE LET query == toLowerCase(s.searchQuery)
         IN SelectSeq(s.repositories,
                      LAMBDA repo : includes(toLowerCase(repo.name), query))

\* Variant of filteredRepos: the texts are compared as they are written.
filteredReposCaseSensitive(s) ==
    IF trim(s.searchQuery) = <<>> THEN s.repositories
    ELSE LET query == s.searchQuery
             matches(repo) ==
                 LET nameMatches == includes(repo.name, query)
                     descriptionMatches ==
                         IF repo.description # NoDescription /\ repo.description # <<>>
                         THEN includes(repo.description, query)
                         ELSE FALSE
                 IN nameMatches \/ descriptionMatches
         IN SelectSeq(s.repositories, matches)

\* The filteredRepos getter.  The search query is a text; with the empty
\* query the names and descriptions are not looked at.
filteredRepos(s) ==
    IF trim(s.searchQuery) = <<>> THEN s.repositories
    ELSE LET query == toLowerCase(s.searchQuery)
             matches(repo) ==
                 LET nameMatches == includes(toLowerCase(repo.name), query)
                     descriptionMatches ==
                         IF repo.description # NoDescription /\ repo.description # <<>>
                         THEN includes(toLowerCase(repo.description), query)
                         ELSE FALSE
                 IN nameMatches \/ descriptionMatches
         IN SelectSeq(s.repositories, matches)

\* A request in flight: the call and its arguments, the CommitHistory panel
\* that made it, and whether the component instance that awaits it is still
\* mounted.
NoReq == [kind |-> "none", user |-> "", repo |-> "", sha |-> "", panel |-> "",
          auto |-> FALSE, live |-> FALSE]
InitReq(u, auto) ==
    [NoReq EXCEPT !.kind = "init", !.user = u, !.auto = auto, !.live = TRUE]
CommitsReq(u, r, p) ==
    [NoReq EXCEPT !.kind = "commits", !.user = u, !.repo = r, !.panel = p, !.live = TRUE]
DetailReq(u, r, sha) ==
    [NoReq EXCEPT !.kind = "detail", !.user = u, !.repo = r, !.sha = sha, !.live = TRUE]

\* rlast: the handler, its argument, the request whose response it handled,
\* the outcome of that request, the commit-detail request it issued, and
\* whether a selectRepository found the same repository selected with its
\* commit list and a commit loaded.
NoRepoOp == [op |-> "none", arg |-> "", req |-> NoReq, outcome |-> "ok",
             issued |-> NoReq, reselect |-> FALSE]

\* The CommitHistory of the desktop layout and the one of the mobile layout;
\* a new instance has no commits, is not loading and has no error.
PanelIds == {"desktop", "mobile"}
panelState == [commits |-> <<>>, loading |-> FALSE, error |-> NoError]
noPanels == [p \in PanelIds |-> panelState]
viewUnmounted == [mounted |-> FALSE, mobileView |-> "repos", isDesktop |-> FALSE]

\* No githubApi call has been made.  A value that may be missing (an
\* optional argument, error.response, data.message, the request's params,
\* what a call returned or threw) is a sequence of no or one element.
NoCall == [op |-> "none", username |-> "", repo |-> "", sha |-> "", rest |-> <<>>,
           url |-> "", params |-> <<>>,
           upstream |-> [data |-> <<>>, error |-> <<>>],
           result |-> [data |-> <<>>, error |-> <<>>]]

\* The refs of the composable as its module creates them; loaded says
\* whether the module has been evaluated (loadFavorites has run).
composableState == [loaded |-> FALSE, favorites |-> <<>>, favoriteCommits |-> <<>>]

\* Nothing else of the application has run.
AppIdle ==
    /\ listed = <<>>
    /\ repoStore = repoState
    /\ view = viewUnmounted
    /\ panels = noPanels
    /\ inflight = <<>>
    /\ rlast = NoRepoOp
    /\ apiCall = NoCall
    /\ composable = composableState

Init ==
    /\ favorites = <<>>
    /\ favoriteCommits = <<>>
    /\ initialized = FALSE
    /\ browser \in BOOLEAN
    /\ storeV2 \in (IF browser THEN RichSlots ELSE {SlotNull})
    /\ storeV1 \in (IF browser THEN LegacySlots ELSE {SlotNull})
    /\ lastOp = NoOp
    /\ synced = FALSE
    /\ legacyIds = {}
    /\ refSet = {}
    /\ AppIdle

\* The store's next state is the world r an operation returns.
Becomes(r) ==
    /\ favorites' = r.favorites
    /\ favoriteCommits' = r.favoriteCommits
    /\ initialized' = r.initialized
    /\ storeV2' = r.storeV2
    /\ storeV1' = r.storeV1
    /\ browser' = r.browser

(***************************************************************************)
(* Actions: one per call into the store.                                   *)
(***************************************************************************)
\* useFavorites(): obtain the store and call initialize() on it.  track says
\* whether the history variable legacyIds is kept.
UseFavoritesOp(track) ==
    \E rd \in ReadOutcomes :
        \* rd names a getItem call that is made: none when initialize returns
        \* at once, and not the V1 read when the V2 slot is used.
        /\ (initialized \/ ~browser) => rd = "ok"
        /\ Truthy(storeV2) => rd # "failV1"
        /\ LET r == initialize(World, rd)
               ran == ~initialized /\ browser
           IN /\ Becomes(r)
              /\ lastOp' = [op |-> "initialize", sha |-> "", data |-> NoData,
                            io |-> rd, threw |-> r.threw, flag |-> ran,
                            was |-> "absent"]
              /\ legacyIds' = IF track /\ LoadsLegacy(World, rd)
                               THEN Range(r.favorites)
                               ELSE legacyIds
              /\ refSet' = IF initialized THEN refSet ELSE Range(r.favorites)
        /\ UNCHANGED <<synced, appVars>>

UseFavorites == UseFavoritesOp(FALSE)
UseFavoritesLegacy == UseFavoritesOp(TRUE)

\* The commitData a caller passes with sha: none, or a record of that commit
\* (RepoView.buildFavoriteCommitPayload sets sha from the matching commit).
DataFor(sha) == {NoData} \cup {c \in FavoriteCommit : c.sha = sha}

Mutation(r, op, sha, data, wr) ==
    /\ Becomes(r)
    /\ lastOp' = [op |-> op, sha |-> sha, data |-> data, io |-> "ok",
                  threw |-> r.threw, flag |-> FALSE, was |-> WasIn(World, sha)]
    /\ UNCHANGED <<legacyIds, appVars>>
    /\ synced' = (browser /\ wr = "ok")

\* The mutations; outs are the outcomes the storage writes may have.
AddFavoriteOp(outs) ==
    \E sha \in Shas, wr \in outs :
        \E data \in DataFor(sha) :
            /\ initialized
            /\ ~browser => wr = "ok"
            /\ Mutation(addFavorite(World, sha, data, wr), "add", sha, data, wr)
            /\ refSet' = RefAdd(refSet, sha)

RemoveFavoriteOp(outs) ==
    \E sha \in Shas, wr \in outs :
        /\ initialized
        /\ ~browser => wr = "ok"
        /\ Mutation(removeFavorite(World, sha, wr), "remove", sha, NoData, wr)
        /\ refSet' = RefRemove(refSet, sha)

ToggleFavoriteOp(outs) ==
    \E sha \in Shas, wr \in outs :
        \E data \in DataFor(sha) :
            /\ initialized
            /\ ~browser => wr = "ok"
            /\ Mutation(toggleFavorite(World, sha, data, wr), "toggle", sha, data, wr)
            /\ refSet' = RefToggle(refSet, sha)

AddFavorite == AddFavoriteOp(WriteOutcomes)
RemoveFavorite == RemoveFavoriteOp(WriteOutcomes)
ToggleFavorite == ToggleFavoriteOp(WriteOutcomes)

\* The isFavorite getter, called by a view.
IsFavorite ==
    \E sha \in Shas :
        /\ initialized
        /\ lastOp' = [op |-> "isFavorite", sha |-> sha, data |-> NoData,
                      io |-> "ok", threw |-> FALSE, flag |-> isFavorite(World, sha),
                      was |-> "absent"]
        /\ UNCHANGED <<storeVars, synced, legacyIds, refSet, appVars>>

\* The page is reloaded: a new process with a fresh store over the same
\* localStorage.
Reload ==
    /\ initialized
    /\ Becomes(freshState(World))
    /\ lastOp' = [NoOp EXCEPT !.op = "reload"]
    /\ refSet' = {}
    /\ legacyIds' = {}
    /\ composable' = composableState
    /\ UNCHANGED <<synced, listed, browseVars, apiCall>>

Next ==
    \/ UseFavorites
    \/ AddFavorite
    \/ RemoveFavorite
    \/ ToggleFavorite
    \/ IsFavorite
    \/ Reload

Spec == Init /\ [][Next]_vars

(***************************************************************************)
(* The store in a browser whose storage starts empty, so that every slot    *)
(* content is one the program wrote; writes may fail.                       *)
(***************************************************************************)
InitFresh ==
    /\ Init
    /\ browser
    /\ storeV2 = SlotNull
    /\ storeV1 = SlotNull

SpecFresh == InitFresh /\ [][Next]_vars

(***************************************************************************)
(* The favorites sidebar over the useFavorites composable, next to the      *)
(* favorites store, in one page over the same localStorage.                 *)
(***************************************************************************)
\* loadFavorites, run once when the module is evaluated.  Outside a browser
\* localStorage is undefined and the catch block runs.
loadFavorites(c, w) ==
    LET caught == [c EXCEPT !.favorites = <<>>, !.favoriteCommits = <<>>]
    IN IF ~w.browser THEN caught
       ELSE IF Truthy(w.storeV2)
       THEN IF JSONparseThrows(w.storeV2) \/ ~IsArray(w.storeV2)
            THEN caught
            ELSE [c EXCEPT !.favoriteCommits = MapFromCommits(JSONparse(w.storeV2)),
                           !.favorites = SetFromArray(ShasOf(JSONparse(w.storeV2)))]
       ELSE IF Truthy(w.storeV1)
       THEN IF JSONparseThrows(w.storeV1) \/ ~IsArray(w.storeV1)
            THEN caught
            ELSE [c EXCEPT !.favorites = SetFromArray(JSONparse(w.storeV1))]
       ELSE c

\* saveFavorites, run by the deep watcher after a change of the refs: the
\* two slots it writes.
saveFavorites(c) ==
    [storeV2 |-> JSONstringify(MapValues(c.favoriteCommits)),
     storeV1 |-> JSONstringify(c.favorites)]

\* The composable's removeFavorite.
composableRemoveFavorite(c, sha) ==
    [c EXCEPT !.favorites = SetDelete(@, sha),
              !.favoriteCommits = MapDelete(@, sha)]

\* The composable's module is evaluated (the sidebar is imported).
LoadComposable ==
    /\ ~composable.loaded
    /\ composable' = [loadFavorites(composable, World) EXCEPT !.loaded = TRUE]
    /\ lastOp' = [NoOp EXCEPT !.op = "loadFavorites"]
    /\ UNCHANGED <<storeVars, synced, legacyIds, refSet, listed, browseVars, apiCall>>

\* The sidebar's handleRemoveFavorite, for a commit of its list; the watcher
\* then saves the refs.
HandleRemoveFavorite ==
    \E sha \in MapKeys(composable.favoriteCommits) :
        /\ composable.loaded
        /\ browser
        /\ composable' = composableRemoveFavorite(composable, sha)
        /\ storeV2' = saveFavorites(composableRemoveFavorite(composable, sha)).storeV2
        /\ storeV1' = saveFavorites(composableRemoveFavorite(composable, sha)).storeV1
        /\ lastOp' = [NoOp EXCEPT !.op = "handleRemoveFavorite", !.sha = sha]
        /\ synced' = FALSE
        /\ UNCHANGED <<favorites, favoriteCommits, initialized, browser, legacyIds,
                       refSet, listed, browseVars, apiCall>>

NextSidebar ==
    \/ LoadComposable
    \/ HandleRemoveFavorite
    \/ UseFavorites
    \/ ToggleFavoriteOp({"ok"})
    \/ Reload

SpecSidebar == InitFresh /\ [][NextSidebar]_vars

(***************************************************************************)
(* The store over storage that accepts every write.                        *)
(***************************************************************************)
NextReliable ==
    \/ UseFavorites
    \/ AddFavoriteOp({"ok"})
    \/ RemoveFavoriteOp({"ok"})
    \/ ToggleFavoriteOp({"ok"})
    \/ IsFavorite
    \/ Reload

SpecReliable == Init /\ [][NextReliable]_vars

(***************************************************************************)
(* The legacy-migration scenario: a browser whose storage holds only a      *)
(* legacy id list (no rich slot), as the legacy client left it, and whose   *)
(* storage accepts every write.                                             *)
(***************************************************************************)
InitLegacy ==
    /\ Init
    /\ browser
    /\ storeV2 = SlotNull
    /\ IsArray(storeV1)

NextLegacy ==
    \/ UseFavoritesLegacy
    \/ AddFavoriteOp({"ok"})
    \/ RemoveFavoriteOp({"ok"})
    \/ ToggleFavoriteOp({"ok"})
    \/ IsFavorite
    \/ Reload

SpecLegacy == InitLegacy /\ [][NextLegacy]_vars

(***************************************************************************)
(* The favorites list getter over a store that holds up to three favorites  *)
(* with records, added in any order, with any dates.                        *)
(***************************************************************************)
SortShas == {"a1", "b2", "c3"}
MaxSortDate == 3
SortDates == 1..MaxSortDate

\* The maps addFavorite builds from records of distinct commits.
SortMaps ==
    {[i \in DOMAIN q |-> [key |-> q[i], val |-> [sha |-> q[i], date |-> d[q[i]]]]] :
        q \in DistinctSeqs(SortShas), d \in [SortShas -> SortDates]}

InitSort ==
    /\ favoriteCommits \in SortMaps
    /\ favorites = [i \in DOMAIN favoriteCommits |-> favoriteCommits[i].key]
    /\ initialized = TRUE
    /\ browser = TRUE
    /\ storeV2 = JSONstringify(MapValues(favoriteCommits))
    /\ storeV1 = JSONstringify(favorites)
    /\ lastOp = NoOp
    /\ synced = TRUE
    /\ legacyIds = {}
    /\ refSet = Range(favorites)
    /\ AppIdle

\* The getAllFavoriteCommits getter, read by the favorites sidebar.
GetAllFavoriteCommits ==
    /\ initialized
    /\ listed' = getAllFavoriteCommits(World)
    /\ lastOp' = [NoOp EXCEPT !.op = "getAllFavoriteCommits"]
    /\ UNCHANGED <<storeVars, synced, legacyIds, refSet, browseVars, apiCall, composable>>

NextSort ==
    \/ GetAllFavoriteCommits
    \/ RemoveFavoriteOp({"ok"})

SpecSort == InitSort /\ [][NextSort]_vars

(***************************************************************************)
(* RepoView over the repo store.  A handler runs to its await in one step;  *)
(* the response of each request in flight is handled in a later step, in    *)
(* any order.  After every step the template is rendered again: the         *)
(* CommitHistory panels are mounted and unmounted and their watchers run.   *)
(***************************************************************************)
MaxInFlight == 2

\* The main content is rendered: v-if loading, v-else-if error, v-else-if user.
Shown(s) == ~s.loading /\ s.error = NoError /\ s.user # NoUser

\* The desktop layout (hidden by CSS on narrow windows) holds a CommitHistory
\* whenever the content is rendered, the mobile layout in its commits view.
Mounted(p, s, v) ==
    v.mounted /\ Shown(s) /\ (p = "mobile" => v.mobileView = "commits")

\* The panel a user can click in.
Visible(p, v) ==
    IF p = "desktop" THEN v.isDesktop
    ELSE ~v.isDesktop /\ v.mobileView = "commits"

Remove(fl, i) == SubSeq(fl, 1, i - 1) \o SubSeq(fl, i + 1, Len(fl))

\* The requests of an unmounted panel, or of an unmounted view, go on
\* without their component.
Orphan(fl, p) ==
    [i \in DOMAIN fl |->
        IF fl[i].kind = "commits" /\ fl[i].panel = p
        THEN [fl[i] EXCEPT !.live = FALSE] ELSE fl[i]]
OrphanAll(fl) == [i \in DOMAIN fl |-> [fl[i] EXCEPT !.live = FALSE]]

\* What the API can answer to a request: "ok" or an Error message.
RepoExists(u, r) == \E i \in DOMAIN RepositoriesOf(u) : RepositoriesOf(u)[i].name = r
CommitsOutcomes(q) ==
    IF RepoExists(q.user, q.repo) THEN {"ok", CommitsError}
    ELSE {"Repository not found", CommitsError}
DetailOutcomes(q) ==
    IF RepoExists(q.user, q.repo) /\ q.sha \in Range(CommitShas(q.repo))
    THEN {"ok", DetailError}
    ELSE {"Commit not found", DetailError}
DetailOf(q) == [sha |-> q.sha, repo |-> q.repo, owner |-> q.user]

\* CommitHistory.fetchCommits up to its await.
fetchCommitsStart(ps, fl, p, username, repositoryName) ==
    IF repositoryName = ""
    THEN [panels |-> [ps EXCEPT ![p].commits = <<>>], inflight |-> fl]
    ELSE [panels |-> [ps EXCEPT ![p].loading = TRUE, ![p].error = NoError],
          inflight |-> Append(fl, CommitsReq(username, repositoryName, p))]

\* CommitHistory.fetchCommits from its await on when the request failed:
\* catch and finally.
fetchCommitsCatch(outcome) ==
    [commits |-> <<>>, loading |-> FALSE, error |-> outcome]

\* One panel across a render: unmounted, or mounted (the immediate watcher
\* runs), or kept with a changed repositoryName prop (the watcher runs).
RenderPanel(p, s, v, s2, v2, acc) ==
    IF Mounted(p, s, v) /\ ~Mounted(p, s2, v2)
    THEN [panels |-> [acc.panels EXCEPT ![p] = panelState],
          inflight |-> Orphan(acc.inflight, p)]
    ELSE IF /\ Mounted(p, s2, v2)
            /\ \/ ~Mounted(p, s, v)
               \/ s.selectedRepo.name # s2.selectedRepo.name
    THEN fetchCommitsStart(acc.panels, acc.inflight, p, s2.username,
                           s2.selectedRepo.name)
    ELSE acc

Render(s, v, s2, v2, ps, fl) ==
    RenderPanel("mobile", s, v, s2, v2,
        RenderPanel("desktop", s, v, s2, v2, [panels |-> ps, inflight |-> fl]))

\* A handler leaves the store as s2, the view as v2, the panels as ps and the
\* requests as fl; then the template is rendered.  cap bounds the requests in
\* flight.
StepOp(cap, s2, v2, ps, fl, op) ==
    LET r == Render(repoStore, view, s2, v2, ps, fl)
    IN /\ Len(r.inflight) <= cap
       /\ repoStore' = s2
       /\ view' = v2
       /\ panels' = r.panels
       /\ inflight' = r.inflight
       /\ rlast' = op
       /\ UNCHANGED <<storeVars, lastOp, synced, legacyIds, refSet, listed, apiCall,
                      composable>>

\* RepoView is mounted on a route, or the route's username changes:
\* initializeForUsername.  u = "" stands for a parameter that is no name.
InitializeForUsernameOp(cap) ==
    \E u \in Usernames \cup {""}, d \in BOOLEAN :
        LET v1 == IF view.mounted THEN view
                  ELSE [mounted |-> TRUE, mobileView |-> "repos", isDesktop |-> d]
            op == [NoRepoOp EXCEPT !.op = "initializeForUsername", !.arg = u]
        IN /\ view.mounted => d = view.isDesktop
           /\ IF u = ""
              THEN StepOp(cap, clearSelection(repoStore), v1, panels, inflight, op)
              ELSE StepOp(cap, initializeStart(repoState, u), v1, panels,
                        Append(inflight, InitReq(u, v1.isDesktop)), op)

\* The profile and repository-list requests of an initialize are answered.
InitResponseOp(cap) ==
    \E i \in DOMAIN inflight : \E outcome \in {"ok"} \cup InitErrors :
        LET q == inflight[i]
        IN /\ q.kind = "init"
           /\ StepOp(cap, initializeDone(repoStore, q.user, q.auto, outcome),
                   IF q.live THEN [view EXCEPT !.mobileView = "repos"] ELSE view,
                   panels, Remove(inflight, i),
                   [NoRepoOp EXCEPT !.op = "initResponse", !.arg = q.user,
                                    !.req = q, !.outcome = outcome])

\* A click on a repository of the list.
HandleSelectRepositoryOp(cap) ==
    \E i \in DOMAIN filteredRepos(repoStore) :
        LET repo == filteredRepos(repoStore)[i]
        IN /\ view.mounted
           /\ Shown(repoStore)
           /\ view.isDesktop \/ view.mobileView = "repos"
           /\ StepOp(cap, selectRepository(repoStore, repo),
                   IF view.isDesktop THEN view
                   ELSE [view EXCEPT !.mobileView = "commits"],
                   panels, inflight,
                   [NoRepoOp EXCEPT
                       !.op = "handleSelectRepository", !.arg = repo.name,
                       !.reselect = /\ repoStore.selectedRepo = repo
                                    /\ repoStore.commits # <<>>
                                    /\ repoStore.selectedCommit # NoCommit])

\* handleSelectCommit up to the await in selectCommit.  With no repository
\* selected selectCommit returns and the handler goes on at once.
selectCommitCall(s, v, fl, sha) ==
    IF s.selectedRepo = NoRepo
    THEN [store |-> s,
          view |-> IF v.isDesktop THEN v ELSE [v EXCEPT !.mobileView = "details"],
          inflight |-> fl, issued |-> NoReq]
    ELSE [store |-> selectCommitStart(s), view |-> v,
          inflight |-> Append(fl, DetailReq(s.username, s.selectedRepo.name, sha)),
          issued |-> DetailReq(s.username, s.selectedRepo.name, sha)]

\* A click on a commit of a panel's list, which is rendered when the panel
\* is not loading and has no error.
HandleSelectCommitOp(cap) ==
    \E p \in PanelIds : \E j \in DOMAIN panels[p].commits :
        LET sha == panels[p].commits[j].sha
            c == selectCommitCall(repoStore, view, inflight, sha)
        IN /\ Mounted(p, repoStore, view)
           /\ Visible(p, view)
           /\ ~panels[p].loading
           /\ panels[p].error = NoError
           /\ StepOp(cap, c.store, c.view, panels, c.inflight,
                   [NoRepoOp EXCEPT !.op = "handleSelectCommit", !.arg = sha,
                                    !.issued = c.issued])

\* The commit-detail request of a selectCommit is answered; then
\* handleSelectCommit goes on.
DetailResponseOp(cap) ==
    \E i \in DOMAIN inflight :
        LET q == inflight[i]
        IN /\ q.kind = "detail"
           /\ \E outcome \in DetailOutcomes(q) :
                  StepOp(cap, selectCommitDone(repoStore, DetailOf(q), outcome),
                       IF q.live /\ ~view.isDesktop
                       THEN [view EXCEPT !.mobileView = "details"] ELSE view,
                       panels, Remove(inflight, i),
                       [NoRepoOp EXCEPT !.op = "detailResponse", !.arg = q.sha,
                                        !.req = q, !.outcome = outcome])

\* The commit-list request of a panel's fetchCommits is answered.  A mounted
\* panel emits commitsLoaded, which runs handleCommitsLoaded; the emit of an
\* unmounted instance reaches no handler.
CommitsResponseOp(cap) ==
    \E i \in DOMAIN inflight :
        LET q == inflight[i]
            fl == Remove(inflight, i)
            list == CommitsOf(q.user, q.repo)
        IN /\ q.kind = "commits"
           /\ \E outcome \in CommitsOutcomes(q) :
                LET op == [NoRepoOp EXCEPT !.op = "commitsResponse", !.arg = q.repo,
                                           !.req = q, !.outcome = outcome]
                IN IF ~q.live
                   THEN StepOp(cap, repoStore, view, panels, fl, op)
                   ELSE IF outcome # "ok"
                   THEN StepOp(cap, repoStore, view,
                             [panels EXCEPT ![q.panel] = fetchCommitsCatch(outcome)],
                             fl, op)
                   ELSE LET s1 == setCommits(repoStore, list)
                            ps == [panels EXCEPT ![q.panel].commits = list,
                                                 ![q.panel].loading = FALSE]
                            c == selectCommitCall(s1, view, fl, list[1].sha)
                        IN IF view.isDesktop /\ Len(list) > 0
                           THEN StepOp(cap, c.store, c.view, ps, c.inflight,
                                     [op EXCEPT !.issued = c.issued])
                           ELSE StepOp(cap, s1, view, ps, fl, op)

\* The back button of the mobile commits view.
GoBackToReposOp(cap) ==
    /\ view.mounted
    /\ Shown(repoStore)
    /\ ~view.isDesktop
    /\ view.mobileView = "commits"
    /\ StepOp(cap, clearSelection(repoStore), [view EXCEPT !.mobileView = "repos"],
            panels, inflight, [NoRepoOp EXCEPT !.op = "goBackToRepos"])

\* The back button of the mobile details view.
GoBackToCommitsOp(cap) ==
    /\ view.mounted
    /\ Shown(repoStore)
    /\ ~view.isDesktop
    /\ view.mobileView = "details"
    /\ StepOp(cap, clearSelectedCommit(repoStore), [view EXCEPT !.mobileView = "commits"],
            panels, inflight, [NoRepoOp EXCEPT !.op = "goBackToCommits"])

\* The route is left (goBack pushes '/'): onUnmounted resets the store.
GoBackOp(cap) ==
    /\ view.mounted
    /\ StepOp(cap, repoState, viewUnmounted, panels, OrphanAll(inflight),
            [NoRepoOp EXCEPT !.op = "goBack"])

\* The window is resized to a desktop width (d) or a narrower one.
HandleResizeOp(cap) ==
    \E d \in BOOLEAN :
        /\ view.mounted
        /\ LET v2 == IF d THEN [view EXCEPT !.isDesktop = d, !.mobileView = "repos"]
                     ELSE [view EXCEPT !.isDesktop = d]
               s2 == IF /\ d
                        /\ ~view.isDesktop
                        /\ repoStore.selectedRepo = NoRepo
                        /\ Len(filteredRepos(repoStore)) > 0
                     THEN selectRepository(repoStore, filteredRepos(repoStore)[1])
                     ELSE repoStore
           IN StepOp(cap, s2, v2, panels, inflight,
                   [NoRepoOp EXCEPT !.op = "handleResize"])

InitializeForUsername == InitializeForUsernameOp(MaxInFlight)
InitResponse == InitResponseOp(MaxInFlight)
HandleSelectRepository == HandleSelectRepositoryOp(MaxInFlight)
HandleSelectCommit == HandleSelectCommitOp(MaxInFlight)
DetailResponse == DetailResponseOp(MaxInFlight)
CommitsResponse == CommitsResponseOp(MaxInFlight)
GoBackToRepos == GoBackToReposOp(MaxInFlight)
GoBackToCommits == GoBackToCommitsOp(MaxInFlight)
GoBack == GoBackOp(MaxInFlight)
HandleResize == HandleResizeOp(MaxInFlight)

\* The favorites store of a browser with empty storage; RepoView not mounted.
InitRepo ==
    /\ Init
    /\ browser
    /\ storeV2 = SlotNull
    /\ storeV1 = SlotNull

NextRepo ==
    \/ InitializeForUsername
    \/ InitResponse
    \/ HandleSelectRepository
    \/ HandleSelectCommit
    \/ DetailResponse
    \/ CommitsResponse
    \/ GoBackToRepos
    \/ GoBackToCommits
    \/ GoBack
    \/ HandleResize

SpecRepo == InitRepo /\ [][NextRepo]_vars

(***************************************************************************)
(* RepoView with at most MaxSerial requests in flight.                      *)
(***************************************************************************)
MaxSerial == 1

NextRepoSerial ==
    \/ InitializeForUsernameOp(MaxSerial)
    \/ InitResponseOp(MaxSerial)
    \/ HandleSelectRepositoryOp(MaxSerial)
    \/ HandleSelectCommitOp(MaxSerial)
    \/ DetailResponseOp(MaxSerial)
    \/ CommitsResponseOp(MaxSerial)
    \/ GoBackToReposOp(MaxSerial)
    \/ GoBackToCommitsOp(MaxSerial)
    \/ GoBackOp(MaxSerial)
    \/ HandleResizeOp(MaxSerial)

SpecRepoSerial == InitRepo /\ [][NextRepoSerial]_vars

(***************************************************************************)
(* RepoView with the favorites store: the stars of the commit list and of  *)
(* the commit details.                                                     *)
(***************************************************************************)
\* The first commit of the store's list with the sha, else the selected
\* commit if it has the sha, else none.
matchingCommit(s, sha) ==
    LET found == {i \in DOMAIN s.commits : s.commits[i].sha = sha}
    IN IF found # {}
       THEN s.commits[CHOOSE i \in found : \A j \in found : i <= j]
       ELSE IF s.selectedCommit # NoCommit /\ s.selectedCommit.sha = sha
       THEN s.selectedCommit
       ELSE NoCommit

\* buildFavoriteCommitPayload: null (NoData) or the record to store.  date
\* stands for the display fields copied from the commit; fetched is history:
\* the user and repository the matching commit was fetched from.
buildFavoriteCommitPayload(s, sha) ==
    IF s.selectedRepo = NoRepo THEN NoData
    ELSE IF matchingCommit(s, sha) = NoCommit THEN NoData
    ELSE [sha |-> matchingCommit(s, sha).sha,
          username |-> s.username,
          repositoryName |-> s.selectedRepo.name,
          date |-> 1,
          fetched |-> [owner |-> matchingCommit(s, sha).owner,
                       repo |-> matchingCommit(s, sha).repo]]

\* handleToggleFavorite: what it passes to toggleFavorite, and whether it
\* calls it at all.
togglePayload(w, s, sha) ==
    IF isFavorite(w, sha) THEN NoData ELSE buildFavoriteCommitPayload(s, sha)
toggleCalled(w, s, sha) ==
    isFavorite(w, sha) \/ buildFavoriteCommitPayload(s, sha) # NoData

\* At most MaxFavorites commits are made favorites.
MaxFavorites == 1

handleToggleFavorite(sha) ==
    /\ initialized
    /\ toggleCalled(World, repoStore, sha)
    /\ isFavorite(World, sha) \/ Len(favorites) < MaxFavorites
    /\ Mutation(toggleFavorite(World, sha, togglePayload(World, repoStore, sha), "ok"),
                "toggle", sha, togglePayload(World, repoStore, sha), "ok")
    /\ refSet' = RefToggle(refSet, sha)

\* A click on the star of a commit of a panel's list.
HandleToggleFavorite ==
    \E p \in PanelIds : \E j \in DOMAIN panels[p].commits :
        /\ Mounted(p, repoStore, view)
        /\ Visible(p, view)
        /\ ~panels[p].loading
        /\ panels[p].error = NoError
        /\ handleToggleFavorite(panels[p].commits[j].sha)

\* A click on the star of the commit details.
HandleToggleFavoriteFromDetails ==
    /\ view.mounted
    /\ Shown(repoStore)
    /\ view.isDesktop \/ view.mobileView = "details"
    /\ repoStore.selectedCommit # NoCommit
    /\ handleToggleFavorite(repoStore.selectedCommit.sha)

\* The state after RepoView's setup in a browser with empty storage: the
\* setup has obtained the favorites store with useFavorites(), which
\* initialized it; the view is not mounted yet.
InitRepoFav ==
    LET w == [favorites |-> <<>>, favoriteCommits |-> <<>>, initialized |-> FALSE,
              storeV2 |-> SlotNull, storeV1 |-> SlotNull, browser |-> TRUE,
              threw |-> FALSE]
        r == initialize(w, "ok")
    IN /\ favorites = r.favorites
       /\ favoriteCommits = r.favoriteCommits
       /\ initialized = r.initialized
       /\ storeV2 = r.storeV2
       /\ storeV1 = r.storeV1
       /\ browser = r.browser
       /\ lastOp = [op |-> "initialize", sha |-> "", data |-> NoData, io |-> "ok",
                    threw |-> r.threw, flag |-> TRUE, was |-> "absent"]
       /\ synced = FALSE
       /\ legacyIds = {}
       /\ refSet = {}
       /\ AppIdle

\* The view is browsed by route changes, selections and the answers to its
\* requests, and stars are clicked; no back navigation and no resize.
NextRepoFav ==
    \/ InitializeForUsername
    \/ InitResponse
    \/ HandleSelectRepository
    \/ HandleSelectCommit
    \/ DetailResponse
    \/ CommitsResponse
    \/ HandleToggleFavorite
    \/ HandleToggleFavoriteFromDetails

SpecRepoFav == InitRepoFav /\ [][NextRepoFav]_vars

(***************************************************************************)
(* The repository filter: a user's repositories are loaded on a narrow     *)
(* window and the search box is typed into.                                *)
(***************************************************************************)
MaxRepos == 2
MaxQueryLen == 2

FilterChars == {"w", "W", " "}
FilterNames == {<<"o", "W">>, <<"z">>}
FilterDescriptions == {NoDescription, <<>>, <<"a", " ", "w">>}
FilterRepos == [name : FilterNames, description : FilterDescriptions, owner : {"ann"}]
FilterLists == UNION {[1..n -> FilterRepos] : n \in 0..MaxRepos}
FilterQueries == UNION {[1..n -> FilterChars] : n \in 0..MaxQueryLen}

InitFilter ==
    /\ favorites = <<>>
    /\ favoriteCommits = <<>>
    /\ initialized = FALSE
    /\ browser = TRUE
    /\ storeV2 = SlotNull
    /\ storeV1 = SlotNull
    /\ lastOp = NoOp
    /\ synced = FALSE
    /\ legacyIds = {}
    /\ refSet = {}
    /\ listed = <<>>
    /\ \E list \in FilterLists :
           repoStore = [repoState EXCEPT !.username = "ann", !.user = "ann",
                                         !.repositories = list, !.initialized = TRUE]
    /\ view = [mounted |-> TRUE, mobileView |-> "repos", isDesktop |-> FALSE]
    /\ panels = noPanels
    /\ inflight = <<>>
    /\ rlast = NoRepoOp
    /\ apiCall = NoCall
    /\ composable = composableState

\* The search box (v-model="searchQuery") is typed into.
SearchInput ==
    \E q \in FilterQueries :
        StepOp(MaxSerial, [repoStore EXCEPT !.searchQuery = q], view, panels, inflight,
               [NoRepoOp EXCEPT !.op = "searchInput"])

NextFilter == SearchInput

SpecFilter == InitFilter /\ [][NextFilter]_vars

(***************************************************************************)
(* githubApi: each call sends one request and returns the data of the      *)
(* response or throws.                                                     *)
(***************************************************************************)
MaxPerPage == 101
MaxPage == 2

\* What apiClient.get resolves or rejects with: the data, an axios error
\* with a response (a status and perhaps a message in its data) or without
\* one, or an error that is no axios error.
UpstreamKinds == {"data", "response", "no response", "other"}
UpstreamStatuses == {404, 500}
UpstreamMessages == {<<>>, <<"">>, <<"API rate limit exceeded">>}

\* new Error(message).
NewError(message) == [isAxiosError |-> FALSE, response |-> <<>>, message |-> message]
AxiosError(response) ==
    [isAxiosError |-> TRUE, response |-> response, message |-> "Request failed"]
Upstream(kind, status, message) ==
    [data |-> IF kind = "data" THEN <<kind>> ELSE <<>>,
     error |->
        CASE kind = "data" -> <<>>
          [] kind = "response" ->
                 <<AxiosError(<<[status |-> status, message |-> message]>>)>>
          [] kind = "no response" ->
                 <<AxiosError(SelectSeq(<<>>, LAMBDA r : r.status = status))>>
          [] kind = "other" -> <<NewError(kind \o " error")>>]

\* throw e; return response.data.
Throw(e) == [data |-> <<>>, error |-> <<e>>]
Return(data) == [data |-> data, error |-> <<>>]

\* error.response?.status === 404
IsNotFound(e) == e.response # <<>> /\ e.response[1].status = 404

\* error.response?.data?.message || generic
MessageOr(e, generic) ==
    IF e.response # <<>> /\ e.response[1].message # <<>> /\ e.response[1].message[1] # ""
    THEN e.response[1].message[1]
    ELSE generic

MathMin(a, b) == IF a < b THEN a ELSE b

getRepositories(username, upstream) ==
    [url |-> "/users/" \o username \o "/repos",
     params |-> <<>>,
     result |->
        IF upstream.error = <<>> THEN Return(upstream.data)
        ELSE LET error == upstream.error[1]
             IN IF error.isAxiosError
                THEN IF IsNotFound(error)
                     THEN Throw(NewError("User \"" \o username \o "\" not found"))
                     ELSE Throw(NewError(MessageOr(error, "Failed to fetch repositories")))
                ELSE Throw(error)]

\* Variant of getCommits: a non-axios error gets the generic message.
getCommitsWrapsAll(username, repo, rest, upstream) ==
    [url |-> "/repos/" \o username \o "/" \o repo \o "/commits",
     params |-> <<[per_page |-> MathMin(IF Len(rest) >= 1 THEN rest[1] ELSE 30, 100),
                   page |-> IF Len(rest) >= 2 THEN rest[2] ELSE 1]>>,
     result |->
        IF upstream.error = <<>> THEN Return(upstream.data)
        ELSE LET error == upstream.error[1]
             IN IF IsNotFound(error)
                THEN Throw(NewError("Repository \"" \o username \o "/" \o repo
                                        \o "\" not found"))
                ELSE Throw(NewError(MessageOr(error, "Failed to fetch commits")))]

\* Variant of getCommits: the page size is sent as it is given.
getCommitsUncapped(username, repo, rest, upstream) ==
    [url |-> "/repos/" \o username \o "/" \o repo \o "/commits",
     params |-> <<[per_page |-> IF Len(rest) >= 1 THEN rest[1] ELSE 30,
                   page |-> IF Len(rest) >= 2 THEN rest[2] ELSE 1]>>,
     result |->
        IF upstream.error = <<>> THEN Return(upstream.data)
        ELSE LET error == upstream.error[1]
             IN IF error.isAxiosError
                THEN IF IsNotFound(error)
                     THEN Throw(NewError("Repository \"" \o username \o "/" \o repo
                                             \o "\" not found"))
                     ELSE Throw(NewError(MessageOr(error, "Failed to fetch commits")))
                ELSE Throw(error)]

\* rest holds the optional arguments passed: none, perPage, or perPage and
\* page.
getCommits(username, repo, rest, upstream) ==
    LET perPage == IF Len(rest) >= 1 THEN rest[1] ELSE 30
        page == IF Len(rest) >= 2 THEN rest[2] ELSE 1
    IN [url |-> "/repos/" \o username \o "/" \o repo \o "/commits",
        params |-> <<[per_page |-> MathMin(perPage, 100), page |-> page]>>,
        result |->
           IF upstream.error = <<>> THEN Return(upstream.data)
           ELSE LET error == upstream.error[1]
                IN IF error.isAxiosError
                   THEN IF IsNotFound(error)
                        THEN Throw(NewError("Repository \"" \o username \o "/" \o repo
                                                \o "\" not found"))
                        ELSE Throw(NewError(MessageOr(error, "Failed to fetch commits")))
                   ELSE Throw(error)]

getCommitDetails(username, repo, sha, upstream) ==
    [url |-> "/repos/" \o username \o "/" \o repo \o "/commits/" \o sha,
     params |-> <<>>,
     result |->
        IF upstream.error = <<>> THEN Return(upstream.data)
        ELSE LET error == upstream.error[1]
             IN IF error.isAxiosError
                THEN IF IsNotFound(error)
                     THEN Throw(NewError("Commit \"" \o sha \o "\" not found"))
                     ELSE Throw(NewError(MessageOr(error, "Failed to fetch commit details")))
                ELSE Throw(error)]

\* The page sizes and page numbers callers pass.
PerPages == {0, 30, 100} \cup 101..MaxPerPage
Pages == 1..MaxPage
RestArgs == {<<>>} \cup {<<p>> : p \in PerPages}
                \cup {<<p, n>> : p \in PerPages, n \in Pages}

\* A call is made and answered.
GetRepositories ==
    \E u \in Usernames, k \in UpstreamKinds, st \in UpstreamStatuses,
       m \in UpstreamMessages :
        LET up == Upstream(k, st, m)
            r == getRepositories(u, up)
        IN /\ apiCall' = [NoCall EXCEPT !.op = "getRepositories", !.username = u,
                                        !.upstream = up, !.url = r.url,
                                        !.params = r.params, !.result = r.result]
           /\ UNCHANGED <<storeVars, lastOp, synced, legacyIds, refSet, listed,
                          browseVars, composable>>

GetCommits ==
    \E u \in Usernames, repo \in RepoNames, rest \in RestArgs, k \in UpstreamKinds,
       st \in UpstreamStatuses, m \in UpstreamMessages :
        LET up == Upstream(k, st, m)
            r == getCommits(u, repo, rest, up)
        IN /\ apiCall' = [NoCall EXCEPT !.op = "getCommits", !.username = u,
                                        !.repo = repo, !.rest = rest,
                                        !.upstream = up, !.url = r.url,
                                        !.params = r.params, !.result = r.result]
           /\ UNCHANGED <<storeVars, lastOp, synced, legacyIds, refSet, listed,
                          browseVars, composable>>

GetCommitDetails ==
    \E u \in Usernames, repo \in RepoNames, sha \in CommitShaSet, k \in UpstreamKinds,
       st \in UpstreamStatuses, m \in UpstreamMessages :
        LET up == Upstream(k, st, m)
            r == getCommitDetails(u, repo, sha, up)
        IN /\ apiCall' = [NoCall EXCEPT !.op = "getCommitDetails", !.username = u,
                                        !.repo = repo, !.sha = sha,
                                        !.upstream = up, !.url = r.url,
                                        !.params = r.params, !.result = r.result]
           /\ UNCHANGED <<storeVars, lastOp, synced, legacyIds, refSet, listed,
                          browseVars, composable>>

NextApi ==
    \/ GetRepositories
    \/ GetCommits
    \/ GetCommitDetails

SpecApi == InitRepo /\ [][NextApi]_vars

(***************************************************************************)
(* Properties.                                                             *)
(***************************************************************************)
MutOps == {"add", "remove", "toggle"}

\* Two indexes with the same id set and the same id -> record mapping.
SameIndex(i, j) ==
    /\ Range(i.favorites) = Range(j.favorites)
    /\ Range(i.favoriteCommits) = Range(j.favoriteCommits)

\* A fresh store initialised from the two slots as they are now.
Restarted == initialize(freshState(World), "ok")

\* C1: after a mutation whose two writes succeeded, a fresh store initialised
\* from the two slots has the same id set as the store and the same record
\* for every id that had one.
C1_RestartReproducesIndex ==
    (lastOp.op \in MutOps /\ synced) =>
        /\ Range(Restarted.favorites) = Range(favorites)
        /\ \A sha \in MapKeys(favoriteCommits) :
               getFavoriteCommit(Restarted, sha) = getFavoriteCommit(World, sha)

\* C2: in every reachable state the set of favorite ids is a superset of the
\* keys of the id -> record mapping.
C2_IdsCoverRecordKeys == MapKeys(favoriteCommits) \subseteq Range(favorites)

C2_Witness ==
    /\ lastOp.op \in MutOps
    /\ favoriteCommits # <<>>
    /\ Range(favorites) \ MapKeys(favoriteCommits) # {}

\* C3: isFavorite(id) equals membership in the reference set model that
\* applies the same add/remove/toggle calls in order, also as the value a call
\* of isFavorite returns, and a call of isFavorite changes no state.
C3_IsFavoriteMatchesReference ==
    /\ [](/\ \A sha \in Shas : isFavorite(World, sha) = (sha \in refSet)
          /\ lastOp.op = "isFavorite" => lastOp.flag = (lastOp.sha \in refSet))
    /\ [][lastOp'.op = "isFavorite" => UNCHANGED storeVars]_vars

C3_Witness ==
    /\ lastOp.op = "isFavorite"
    /\ lastOp.flag
    /\ refSet = {lastOp.sha}
    /\ synced

\* toggleFavorite(sha, data) called twice in a row on w.
ToggleTwice(w, sha, data) ==
    toggleFavorite(toggleFavorite(w, sha, data, "ok"), sha, data, "ok")

\* C4 (as stated): for every reachable index and every id and record, two
\* toggleFavorite(id, record) calls in a row return the index to its state
\* before the first call.
C4_ToggleTwiceRestoresAlways ==
    initialized =>
        \A sha \in Shas : \A data \in DataFor(sha) :
            SameIndex(IndexOf(ToggleTwice(World, sha, data)), IndexOf(World))

\* C4 (amended): two toggleFavorite(id, record) calls in a row return the
\* index to its state before the first call when the id was not a favorite,
\* or was a favorite whose stored record is the supplied one (none stored and
\* none supplied included).
C4_ToggleTwiceRestores ==
    initialized =>
        \A sha \in Shas : \A data \in DataFor(sha) :
            (WasIn(World, sha) = "absent" \/ getFavoriteCommit(World, sha) = data)
                => SameIndex(IndexOf(ToggleTwice(World, sha, data)), IndexOf(World))

\* A first toggle has added a new id with its record; a second one is due.
C4_Witness ==
    /\ lastOp.op = "toggle"
    /\ lastOp.was = "absent"
    /\ lastOp.data # NoData
    /\ getFavoriteCommit(World, lastOp.sha) = lastOp.data
    /\ Cardinality(Range(favorites)) > 1

\* initialize has just run its body and every getItem call succeeded.
InitRead == lastOp.op = "initialize" /\ lastOp.flag /\ lastOp.io = "ok"

\* The rich slot holds a string that does not parse to an array.
RichUnusable == storeV2.kind \in {"malformed", "object"}

C6_LegacyMigration ==
    /\ (InitRead /\ storeV2 = SlotNull /\ IsArray(storeV1)) =>
           /\ getAllFavorites(World) = storeV1.items
           /\ getAllFavoriteCommits(World) = <<>>
    /\ (lastOp.op = "add" /\ lastOp.data # NoData /\ lastOp.sha \in legacyIds) =>
           lastOp.data \in Range(getAllFavoriteCommits(World))
    /\ \A sha \in legacyIds \cap Range(favorites) :
           \A data \in DataFor(sha) \ {NoData} :
               LET r == addFavorite(World, sha, data, "ok")
               IN /\ data \in Range(getAllFavoriteCommits(r))
                  /\ getAllFavorites(r) = getAllFavorites(World)

C6_Witness ==
    /\ lastOp.op = "add"
    /\ lastOp.was = "bare"
    /\ lastOp.sha \in legacyIds
    /\ lastOp.data # NoData
    /\ getAllFavoriteCommits(World) = <<lastOp.data>>
    /\ Range(favorites) = legacyIds
    /\ Cardinality(legacyIds) > 1

\* toggleFavorite(id, record) has just run on an id that was loaded from the
\* legacy slot and had no record.
ToggledBareLegacyId ==
    /\ lastOp.op = "toggle"
    /\ lastOp.was = "bare"
    /\ lastOp.sha \in legacyIds
    /\ lastOp.data # NoData

\* C7 (as stated): toggleFavorite(id, record) on an id loaded from the legacy
\* slot that has no record backfills the record: the id is still a favorite
\* and getFavoriteCommit(id) is the record.
C7_ToggleBackfillsLegacyId ==
    ToggledBareLegacyId =>
        /\ isFavorite(World, lastOp.sha)
        /\ getFavoriteCommit(World, lastOp.sha) = lastOp.data

\* C7 (amended): toggleFavorite(id, record) on an id loaded from the legacy
\* slot that has no record removes the id: it is no favorite afterwards and
\* has no record.
C7_ToggleRemovesLegacyId ==
    ToggledBareLegacyId =>
        /\ ~isFavorite(World, lastOp.sha)
        /\ getFavoriteCommit(World, lastOp.sha) = NoData

C7_Witness == ToggledBareLegacyId /\ favorites # <<>>

\* C8: after a mutation whose two writes succeeded, the rich slot holds
\* exactly the current records and the legacy slot exactly the current ids,
\* so a client reading only the legacy slot sees the current membership.
C8_WriteThrough ==
    (lastOp.op \in MutOps /\ synced) =>
        /\ IsArray(storeV2)
        /\ JSONparse(storeV2) = MapValues(favoriteCommits)
        /\ IsArray(storeV1)
        /\ JSONparse(storeV1) = favorites
        /\ \A sha \in Shas :
               SetHas(SetFromArray(JSONparse(storeV1)), sha) = isFavorite(World, sha)

C8_Witness ==
    /\ lastOp.op \in MutOps
    /\ synced
    /\ Len(storeV1.items) > Len(storeV2.items)
    /\ Len(storeV2.items) > 0

\* initialize has just run its body and a read or a parse it made failed.
InitFailed ==
    /\ lastOp.op = "initialize"
    /\ lastOp.flag
    /\ \/ lastOp.io # "ok"
       \/ Truthy(storeV2) /\ ~IsArray(storeV2)
       \/ ~Truthy(storeV2) /\ Truthy(storeV1) /\ ~IsArray(storeV1)

\* C9: if a read or a parse of a slot fails during initialize, no exception
\* reaches the caller, the id set and the record mapping are empty, and the
\* store is marked initialized.
C9_InitFailureResets ==
    InitFailed =>
        /\ ~lastOp.threw
        /\ IndexOf(World) = EmptyIndex
        /\ initialized

C9_Witness ==
    /\ InitFailed
    /\ lastOp.io = "ok"
    /\ ~Truthy(storeV2)
    /\ storeV1 = SlotMalformed

\* C10: if a storage write fails in the persist of a mutation, the call does
\* not throw and the index keeps the mutated value: the id added (with the
\* record supplied) or removed (with its record).
C10_WriteFailureKeepsMutation ==
    (lastOp.op \in MutOps /\ browser /\ ~synced) =>
        /\ ~lastOp.threw
        /\ LET added == \/ lastOp.op = "add"
                        \/ lastOp.op = "toggle" /\ lastOp.was = "absent"
           IN IF added
              THEN /\ isFavorite(World, lastOp.sha)
                   /\ lastOp.data # NoData =>
                          getFavoriteCommit(World, lastOp.sha) = lastOp.data
              ELSE /\ ~isFavorite(World, lastOp.sha)
                   /\ getFavoriteCommit(World, lastOp.sha) = NoData

\* A mutation is in memory and in neither slot.
C10_Witness ==
    /\ lastOp.op \in MutOps
    /\ browser
    /\ ~synced
    /\ lastOp.data # NoData
    /\ getFavoriteCommit(World, lastOp.sha) = lastOp.data
    /\ storeV2 = SlotNull
    /\ storeV1 = SlotNull

\* The world as it would be with storage available and both slots empty.
WithStorage(w) == [w EXCEPT !.browser = TRUE, !.storeV2 = SlotNull, !.storeV1 = SlotNull]

\* C11: without localStorage no operation throws, both slots stay as they
\* were (absent), initialize leaves the empty index, and every mutation gives
\* the index it gives on the same index with storage available.
C11_NoStorageSameIndex ==
    ~browser =>
        /\ ~lastOp.threw
        /\ storeV2 = SlotNull /\ storeV1 = SlotNull
        /\ Range(favorites) = refSet
        /\ IndexOf(initialize(freshState(World), "ok")) = EmptyIndex
        /\ IndexOf(initialize(World, "ok")) = IndexOf(World)
        /\ IndexOf(initialize(freshState(World), "ok"))
               = IndexOf(initialize(freshState(WithStorage(World)), "ok"))
        /\ \A sha \in Shas : \A data \in DataFor(sha) :
               /\ ~addFavorite(World, sha, data, "ok").threw
               /\ IndexOf(addFavorite(World, sha, data, "ok"))
                      = IndexOf(addFavorite(WithStorage(World), sha, data, "ok"))
               /\ IndexOf(removeFavorite(World, sha, "ok"))
                      = IndexOf(removeFavorite(WithStorage(World), sha, "ok"))
               /\ IndexOf(toggleFavorite(World, sha, data, "ok"))
                      = IndexOf(toggleFavorite(WithStorage(World), sha, data, "ok"))
               /\ isFavorite(World, sha) = isFavorite(WithStorage(World), sha)
               /\ getFavoriteCommit(World, sha)
                      = getFavoriteCommit(WithStorage(World), sha)
        /\ getAllFavoriteCommits(World) = getAllFavoriteCommits(WithStorage(World))

\* Without localStorage a toggle has added a recorded favorite to an index
\* that already holds one.
C11_Witness ==
    /\ ~browser
    /\ initialized
    /\ lastOp.op = "toggle"
    /\ lastOp.was = "absent"
    /\ lastOp.data # NoData
    /\ Len(favorites) = 2
    /\ getFavoriteCommit(World, lastOp.sha) = lastOp.data

\* C12: initialize on a store whose initialized flag is set leaves the id set
\* and the record mapping as they are, whatever the two slots hold and
\* whichever read would fail; and no initialize step on an initialized store
\* changes them.
C12_InitializeOnce ==
    /\ [](initialized =>
            \A v2 \in RichSlots \cup {storeV2} : \A v1 \in LegacySlots \cup {storeV1} :
                \A rd \in ReadOutcomes :
                    LET w == initialize([World EXCEPT !.storeV2 = v2, !.storeV1 = v1], rd)
                    IN /\ IndexOf(w) = IndexOf(World)
                       /\ w.initialized
                       /\ ~w.threw)
    /\ [][(initialized /\ lastOp'.op = "initialize") =>
              /\ favorites' = favorites
              /\ favoriteCommits' = favoriteCommits
              /\ initialized']_vars

\* initialize was called on an initialized store whose slots would load a
\* different index.
C12_Witness ==
    /\ lastOp.op = "initialize"
    /\ ~lastOp.flag
    /\ browser
    /\ initialized
    /\ favorites # <<>>
    /\ IndexOf(Restarted) # IndexOf(World)

\* C13: addFavorite makes the sha a favorite; applied a second time with the
\* same arguments it gives the same index; with commitData the record of the
\* sha is the one supplied, without commitData the record of the sha stays as
\* it was.  The last add step shows the same.
C13_AddFavoriteIdempotent ==
    /\ initialized =>
           \A sha \in Shas : \A data \in DataFor(sha) :
               LET once == addFavorite(World, sha, data, "ok")
                   twice == addFavorite(once, sha, data, "ok")
               IN /\ IndexOf(twice) = IndexOf(once)
                  /\ isFavorite(once, sha)
                  /\ data # NoData => getFavoriteCommit(once, sha) = data
                  /\ data = NoData =>
                         getFavoriteCommit(once, sha) = getFavoriteCommit(World, sha)
    /\ lastOp.op = "add" =>
           /\ isFavorite(World, lastOp.sha)
           /\ lastOp.data # NoData =>
                  getFavoriteCommit(World, lastOp.sha) = lastOp.data
           /\ (lastOp.data = NoData /\ lastOp.was = "recorded") =>
                  getFavoriteCommit(World, lastOp.sha) # NoData
           /\ (lastOp.data = NoData /\ lastOp.was # "recorded") =>
                  getFavoriteCommit(World, lastOp.sha) = NoData

\* addFavorite without commitData was called for a sha that had a record.
C13_Witness ==
    /\ lastOp.op = "add"
    /\ lastOp.was = "recorded"
    /\ lastOp.data = NoData
    /\ getFavoriteCommit(World, lastOp.sha) # NoData

\* C14: removeFavorite leaves the sha neither in the set nor in the map;
\* for an absent sha it leaves the index as it is; applied twice it gives the
\* same index as once; every other sha keeps its membership and its record.
C14_RemoveFavorite ==
    /\ initialized =>
           \A sha \in Shas :
               LET once == removeFavorite(World, sha, "ok")
                   twice == removeFavorite(once, sha, "ok")
               IN /\ ~isFavorite(once, sha)
                  /\ getFavoriteCommit(once, sha) = NoData
                  /\ ~isFavorite(World, sha) => IndexOf(once) = IndexOf(World)
                  /\ IndexOf(twice) = IndexOf(once)
                  /\ \A other \in Shas \ {sha} :
                         /\ isFavorite(once, other) = isFavorite(World, other)
                         /\ getFavoriteCommit(once, other)
                                = getFavoriteCommit(World, other)
    /\ lastOp.op = "remove" =>
           /\ ~isFavorite(World, lastOp.sha)
           /\ getFavoriteCommit(World, lastOp.sha) = NoData

\* removeFavorite took a recorded favorite out and another record is left.
C14_Witness ==
    /\ lastOp.op = "remove"
    /\ lastOp.was = "recorded"
    /\ Len(favorites) = 1
    /\ Len(favoriteCommits) = 1

\* C15: when initialize has read a V2 slot that parses to an array, the id
\* set is the set of the shas of its elements, getFavoriteCommit returns each
\* element, the map has no other key, and the same index is loaded whatever
\* the V1 slot holds and even if reading the V1 slot would throw.
C15_RichSlotLoaded ==
    (InitRead /\ IsArray(storeV2)) =>
        /\ Range(favorites) = {storeV2.items[i].sha : i \in DOMAIN storeV2.items}
        /\ \A i \in DOMAIN storeV2.items :
               getFavoriteCommit(World, storeV2.items[i].sha) = storeV2.items[i]
        /\ MapKeys(favoriteCommits) = Range(favorites)
        /\ \A v1 \in LegacySlots : \A rd \in {"ok", "failV1"} :
               IndexOf(initialize(freshState([World EXCEPT !.storeV1 = v1]), rd))
                   = IndexOf(World)

\* Two records were loaded from the V2 slot while the V1 slot lists an id
\* order of its own.
C15_Witness ==
    /\ InitRead
    /\ IsArray(storeV2)
    /\ Len(storeV2.items) = 2
    /\ IsArray(storeV1)
    /\ Len(storeV1.items) = 1
    /\ Len(favorites) = 2

\* The dates of the records of the map are pairwise distinct.
DistinctDates(m) ==
    \A i, j \in DOMAIN m : i # j => m[i].val.date # m[j].val.date

\* C16: when the records have pairwise distinct dates, the list the getter
\* returned holds each record of the map once and nothing else, and every
\* element has a later date than the elements after it, whatever the order
\* the records were inserted in.
C16_ListedNewestFirst ==
    (lastOp.op = "getAllFavoriteCommits" /\ DistinctDates(favoriteCommits)) =>
        /\ Len(listed) = Len(favoriteCommits)
        /\ Range(listed) = Range(MapValues(favoriteCommits))
        /\ \A i, j \in DOMAIN listed : i < j => listed[i].date > listed[j].date

\* Three records inserted oldest first were listed.
C16_Witness ==
    /\ lastOp.op = "getAllFavoriteCommits"
    /\ Len(favoriteCommits) = 3
    /\ favoriteCommits[1].val.date < favoriteCommits[2].val.date
    /\ favoriteCommits[2].val.date < favoriteCommits[3].val.date
    /\ Len(listed) = 3
    /\ listed[1] = favoriteCommits[3].val

\* C17 (as stated): when a commit-detail response arrives for a selectCommit
\* issued under a repository that is not the selected one any more (another
\* one is selected, or none), the response does not become selectedCommit.
C17_StaleDetailDiscarded ==
    (/\ rlast.op = "detailResponse"
     /\ rlast.outcome = "ok"
     /\ repoStore.selectedRepo # [name |-> rlast.req.repo, owner |-> rlast.req.user])
        => repoStore.selectedCommit # DetailOf(rlast.req)

\* C18 (as stated): while a repository is selected, the store's commit list
\* and selected commit hold no data fetched for another repository of the
\* same user, and a commit-detail request that a step issues names the
\* selected repository and one of its commits.
C18_OnlySelectedRepoData ==
    LET sel == repoStore.selectedRepo
    IN sel # NoRepo =>
           /\ \A i \in DOMAIN repoStore.commits :
                  repoStore.commits[i].owner = sel.owner
                      => repoStore.commits[i].repo = sel.name
           /\ repoStore.selectedCommit.owner = sel.owner
                  => repoStore.selectedCommit.repo = sel.name
           /\ rlast.issued # NoReq =>
                  /\ rlast.issued.repo = sel.name
                  /\ rlast.issued.sha \in Range(CommitShas(sel.name))

\* C19 (as stated): when initialize has been called with a username loading
\* is true and error is null; when its requests have succeeded the store has
\* loading false, error null and the user and repositories fetched; when
\* one has failed it has loading false, the failure message as error, no
\* user, no repositories, no selected repository, commit list or commit.
C19_InitializeOutcome ==
    /\ (rlast.op = "initializeForUsername" /\ rlast.arg # "") =>
           repoStore.loading /\ repoStore.error = NoError
    /\ (rlast.op = "initResponse" /\ rlast.outcome = "ok") =>
           /\ ~repoStore.loading
           /\ repoStore.error = NoError
           /\ repoStore.user = rlast.req.user
           /\ repoStore.repositories = RepositoriesOf(rlast.req.user)
    /\ (rlast.op = "initResponse" /\ rlast.outcome # "ok") =>
           /\ ~repoStore.loading
           /\ repoStore.error = rlast.outcome
           /\ repoStore.user = NoUser
           /\ repoStore.repositories = <<>>
           /\ repoStore.selectedRepo = NoRepo
           /\ repoStore.commits = <<>>
           /\ repoStore.selectedCommit = NoCommit

\* C20: a step that is a selectRepository call leaves the store as it was
\* except that selectedRepo is the repository passed, selectedCommit is null
\* and the commit list is empty; and in every state selectRepository gives
\* just that for every repository and for null.
C20_SelectRepositoryFrame ==
    /\ [](\A u \in Usernames : \A repo \in Range(RepositoriesOf(u)) \cup {NoRepo} :
              selectRepository(repoStore, repo)
                  = [repoStore EXCEPT !.selectedRepo = repo,
                                      !.selectedCommit = NoCommit,
                                      !.commits = <<>>])
    /\ [][rlast'.op = "handleSelectRepository" =>
              /\ repoStore'.selectedRepo.name = rlast'.arg
              /\ repoStore'.selectedRepo \in Range(repoStore.repositories)
              /\ repoStore' = [repoStore EXCEPT
                                  !.selectedRepo = repoStore'.selectedRepo,
                                  !.selectedCommit = NoCommit,
                                  !.commits = <<>>]]_vars

\* The repository already selected, with its commit list and a commit
\* loaded, was selected again.
C20_Witness ==
    /\ rlast.op = "handleSelectRepository"
    /\ rlast.reselect
    /\ repoStore.selectedRepo.name = rlast.arg
    /\ repoStore.selectedCommit = NoCommit
    /\ repoStore.commits = <<>>
    /\ repoStore.user # NoUser
    /\ repoStore.repositories # <<>>

QueryAt(t, q, i) ==
    /\ i + Len(q) <= Len(t)
    /\ \A k \in 1..Len(q) : toLowerCaseChar(t[i + k]) = toLowerCaseChar(q[k])

Contains(t, q) == \E i \in 0..Len(t) : QueryAt(t, q, i)

RepoMatches(repo, q) ==
    \/ Contains(repo.name, q)
    \/ repo.description # NoDescription /\ Contains(repo.description, q)

C22_FilteredRepos ==
    LET q == repoStore.searchQuery
        list == repoStore.repositories
        out == filteredRepos(repoStore)
        hits == {i \in DOMAIN list : RepoMatches(list[i], q)}
        nth(k) == CHOOSE i \in hits : Cardinality({j \in hits : j < i}) = k - 1
    IN IF \A k \in DOMAIN q : q[k] = " "
       THEN out = list
       ELSE /\ Len(out) = Cardinality(hits)
            /\ \A k \in DOMAIN out : out[k] = list[nth(k)]

\* Query "W" over a repository matched by its name in another case, one
\* matched by its description only, and none matched by "ww".
C22_Witness ==
    /\ rlast.op = "searchInput"
    /\ repoStore.searchQuery = <<"W">>
    /\ Len(repoStore.repositories) = 2
    /\ repoStore.repositories[1].name = <<"z">>
    /\ repoStore.repositories[1].description = <<"a", " ", "w">>
    /\ repoStore.repositories[2].name = <<"o", "W">>
    /\ repoStore.repositories[2].description = NoDescription
    /\ filteredRepos(repoStore) = repoStore.repositories
    /\ filteredRepos([repoStore EXCEPT !.searchQuery = <<"w", "w">>]) = <<>>
    /\ filteredRepos([repoStore EXCEPT !.searchQuery = <<" ", "w">>])
           = <<repoStore.repositories[1]>>

\* C23: when the request of getRepositories, getCommits or getCommitDetails
\* fails, the call throws: for an axios error with status 404 a new Error
\* with the operation's not-found message, which names the user, the
\* user/repository or the commit asked for; for any other axios error a new
\* Error with the upstream message when there is a non-empty one and with the
\* operation's generic message otherwise; for an error that is no axios error
\* that same error.
NotFoundMessage(c) ==
    CASE c.op = "getRepositories" -> "User \"" \o c.username \o "\" not found"
      [] c.op = "getCommits" ->
             "Repository \"" \o c.username \o "/" \o c.repo \o "\" not found"
      [] c.op = "getCommitDetails" -> "Commit \"" \o c.sha \o "\" not found"

GenericMessage(c) ==
    CASE c.op = "getRepositories" -> "Failed to fetch repositories"
      [] c.op = "getCommits" -> "Failed to fetch commits"
      [] c.op = "getCommitDetails" -> "Failed to fetch commit details"

C23_ErrorMapping ==
    (apiCall.op # "none" /\ apiCall.upstream.error # <<>>) =>
        LET e == apiCall.upstream.error[1]
            thrown == apiCall.result.error
            is404 == e.response # <<>> /\ e.response[1].status = 404
            upstreamText ==
                {m \in {"API rate limit exceeded"} :
                    e.response # <<>> /\ e.response[1].message = <<m>>}
        IN /\ apiCall.result.data = <<>>
           /\ Len(thrown) = 1
           /\ ~e.isAxiosError => thrown[1] = e
           /\ e.isAxiosError =>
                 /\ ~thrown[1].isAxiosError
                 /\ thrown[1].message =
                        IF is404 THEN NotFoundMessage(apiCall)
                        ELSE IF upstreamText # {} THEN CHOOSE m \in upstreamText : TRUE
                        ELSE GenericMessage(apiCall)

\* getCommits got status 500 with GitHub's message, which it throws.
C23_Witness ==
    /\ apiCall.op = "getCommits"
    /\ apiCall.upstream.error # <<>>
    /\ apiCall.upstream.error[1].isAxiosError
    /\ apiCall.upstream.error[1].response # <<>>
    /\ apiCall.upstream.error[1].response[1].status = 500
    /\ apiCall.upstream.error[1].response[1].message = <<"API rate limit exceeded">>
    /\ apiCall.result.error # <<>>
    /\ ~apiCall.result.error[1].isAxiosError
    /\ apiCall.result.error[1].message = "API rate limit exceeded"
    /\ getCommitDetails("ann", "A", "a1", Upstream("response", 404, <<>>))
           .result.error[1].message = "Commit \"a1\" not found"
    /\ getRepositories("ann", Upstream("other", 500, <<>>)).result.error[1].message
           = "other error"

\* C24: getCommits sends per_page = min(p, 100) for the page size p it is
\* given and for 30 when it is given none, and sends the page number it is
\* given, 1 when it is given none; the per_page it sends is at most 100.
C24_PerPageCapped ==
    apiCall.op = "getCommits" =>
        LET rest == apiCall.rest
            p == IF rest = <<>> THEN 30 ELSE rest[1]
            n == IF Len(rest) < 2 THEN 1 ELSE rest[2]
            sent == apiCall.params[1]
        IN /\ Len(apiCall.params) = 1
           /\ sent.per_page <= 100
           /\ sent.per_page <= p
           /\ sent.per_page \in {p, 100}
           /\ sent.page = n

\* A page size over 100 was asked for, with a page number.
C24_Witness ==
    /\ apiCall.op = "getCommits"
    /\ apiCall.rest = <<101, 2>>
    /\ Len(apiCall.params) = 1
    /\ apiCall.params[1].per_page = 100
    /\ apiCall.params[1].page = 2
    /\ getCommits("ann", "A", <<>>, Upstream("data", 404, <<>>)).params
           = <<[per_page |-> 30, page |-> 1]>>
    /\ getCommits("ann", "A", <<50>>, Upstream("data", 404, <<>>)).params
           = <<[per_page |-> 50, page |-> 1]>>

\* C25 (as stated): while the profile request made for the store's current
\* username is outstanding loading is true; and once no profile request is
\* outstanding, a user the store holds is the current username's, with that
\* user's repositories, whichever response came last.
PendingInit == {i \in DOMAIN inflight : inflight[i].kind = "init"}

C25_LoadingWhileOutstanding ==
    (\E i \in PendingInit : inflight[i].user = repoStore.username) => repoStore.loading

C25_CurrentUserData ==
    (view.mounted /\ PendingInit = {} /\ repoStore.user # NoUser) =>
        /\ repoStore.user = repoStore.username
        /\ repoStore.repositories = RepositoriesOf(repoStore.username)

C25_StaleProfileIgnored == C25_LoadingWhileOutstanding /\ C25_CurrentUserData

\* C26 (as stated): every record in the favorites store names, as username
\* and repositoryName, the user and the repository its commit was fetched
\* from.
C26_FavoriteNamesOrigin ==
    \A i \in DOMAIN favoriteCommits :
        LET c == favoriteCommits[i].val
        IN /\ c.username = c.fetched.owner
           /\ c.repositoryName = c.fetched.repo

\* C27 (as stated): in every state of the repo store, a commit is selected
\* only if a repository is selected.
C27_CommitOnlyWithRepo ==
    repoStore.selectedCommit # NoCommit => repoStore.selectedRepo # NoRepo

\* C28 (as stated): on a non-desktop layout, mobileView 'commits' or
\* 'details' implies a selected repository, and mobileView 'details' with no
\* commit-detail fetch outstanding implies a selected commit.
PendingDetail == \E i \in DOMAIN inflight : inflight[i].kind = "detail"

C28_MobileViewHasSelection ==
    (view.mounted /\ ~view.isDesktop) =>
        /\ view.mobileView \in {"commits", "details"} =>
               repoStore.selectedRepo # NoRepo
        /\ (view.mobileView = "details" /\ ~PendingDetail) =>
               repoStore.selectedCommit # NoCommit

\* C29 (as stated): in every storage state the program produces, failed
\* second writes included, the ids of the records in the rich slot are a
\* subset of the ids in the legacy slot.
RichSlotIds == IF IsArray(storeV2) THEN Range(ShasOf(storeV2.items)) ELSE {}
LegacySlotIds == IF IsArray(storeV1) THEN Range(storeV1.items) ELSE {}

C29_RichSubsetOfLegacy == RichSlotIds \subseteq LegacySlotIds

\* C30 (as stated): the sidebar's composable and the favorites store of the
\* repository view hold the same id set after every operation.
C30_SameIdSet ==
    (initialized /\ composable.loaded) =>
        Range(composable.favorites) = Range(favorites)

====
